---- MODULE Spec2Model ----
(***************************************************************************)
(* Model of the domain core of the resource manager:                       *)
(*   models/resource.py  Resource, WaterResource, EnergyResource,          *)
(*                       WasteResource                                     *)
(*   models/consumer.py  Consumer                                          *)
(*                                                                         *)
(* Quantities are Python floats in the source.  The model uses exact       *)
(* fixed-point numbers: an integer n stands for n/1000.  All inputs are    *)
(* multiples of 125 (binary fractions, exactly representable as floats),   *)
(* so sums and differences are exact in the source too and round(x, 2)     *)
(* and the ':.2f' format round exact ties to even.                         *)
(***************************************************************************)
EXTENDS Integers, Sequences, FiniteSets, TLC

\* ---------------------------------------------------------------- bounds
\* Largest wall-clock reading datetime.now() can return.
MaxClock == 0

\* Object identities.  r1 and r2 are two distinct instances; both may carry
\* the same name, as water / extra_water do in main.py.
Resources == {"r1", "r2"}
Consumers == {"c1", "c2"}

\* Consumption amounts: negative, zero, positive, and larger than a pool.
Amounts == {-125, 0, 125, 250}
Timestamps == 0 .. MaxClock

\* The list objects of the heap: one fresh list per consumer, and one list
\* owned by the caller that may be passed to Consumer(...) as
\* assigned_resources.
OwnList(c) == <<"own", c>>
SeedList == <<"seed", "caller">>
ListIds == {OwnList(c) : c \in Consumers} \cup {SeedList}
\* Consumer(...) called without assigned_resources.
NoList == <<"none", "none">>

\* The constructor calls Consumer(id, name, arg) of each construction: every
\* consumer built without a list; c1 built from a list naming one resource
\* twice; both consumers built from the same one-element list.
Constructions ==
    {[seed |-> <<>>, args |-> [c \in Consumers |-> NoList]],
     [seed |-> <<"r1", "r1">>, args |-> [c \in Consumers |-> IF c = "c1" THEN SeedList ELSE NoList]],
     [seed |-> <<"r2">>, args |-> [c \in Consumers |-> SeedList]]}

VARIABLES
    kind,                 \* r -> class of the instance
    name,                 \* r -> Resource._name
    total_available,      \* r -> Resource._total_available
    initial_amount,       \* r -> Resource._initial_amount
    renewable,            \* r -> Resource._renewable
    extra,                \* r -> _source / _energy_type / _waste_category
    usage_log,            \* r -> Resource._usage_log
    assigned_resources,   \* c -> identity of the list Consumer._assigned_resources
    lists,                \* list identity -> its contents (resource identities)
    consumption_history,  \* c -> Consumer._consumption_history
    ret,                  \* the last call and the value it returned
    held,                 \* the object a caller keeps from an earlier call
    threads,              \* c -> where the thread running c's call stands
    pc                    \* the number of calls of its script a caller has made

resourceVars == <<kind, name, total_available, initial_amount, renewable, extra, usage_log>>
consumerVars == <<assigned_resources, lists, consumption_history>>
callerVars == <<held, threads, pc>>
vars == <<kind, name, total_available, initial_amount, renewable, extra, usage_log,
          assigned_resources, lists, consumption_history, ret, held, threads, pc>>

\* ------------------------------------------------------------ arithmetic
\* round(x, 2) and format(x, '.2f'): nearest hundredth, exact ties to even.
Round2(x) ==
    LET q == x \div 10
        r == x % 10
    IN  IF r < 5 THEN 10 * q
        ELSE IF r > 5 THEN 10 * (q + 1)
        ELSE IF q % 2 = 0 THEN 10 * q ELSE 10 * (q + 1)

\* round(n / d * 100, 2) for d > 0, as thousandths of a percent; the
\* quotient and remainder of n * 10000 by d are taken in two steps of 100 to
\* stay within 32 bits.
RoundPct(n, d) ==
    LET first == n * 100
        rest == (first % d) * 100
        q == (first \div d) * 100 + rest \div d
        r == rest % d
    IN  IF 2 * r < d THEN 10 * q
        ELSE IF 2 * r > d THEN 10 * (q + 1)
        ELSE IF q % 2 = 0 THEN 10 * q ELSE 10 * (q + 1)

\* ------------------------------------------------------------- Consumer
ConsumerId(c) == IF c = "c1" THEN "C-101" ELSE "C-202"
ConsumerName(c) == IF c = "c1" THEN "Residential Block A" ELSE "Textile Factory B"

\* self._assigned_resources, dereferenced.
Assigned(c) == lists[assigned_resources[c]]

\* Membership by the resource's name instead of its identity.
Contains_ByName(s, x) == \E i \in 1 .. Len(s) : name[s[i]] = name[x]

\* x in list
Contains(s, x) == \E i \in 1 .. Len(s) : s[i] = x

\* A success test that takes every message for a success.
StartsWithCheck_AnyMessage(result) == result.glyph \in {"ok", "warn"}

\* result.startswith("✔")
StartsWithCheck(result) == result.glyph = "ok"

\* ------------------------------------------------------------- Resource
\* update_availability without the check against the remaining quantity.
update_availability_NoStockCheck(r, amount, now) ==
    IF amount <= 0
    THEN [total |-> total_available[r], log |-> usage_log[r],
          result |-> [glyph |-> "warn", kind |-> "InvalidAmount", amount |-> amount]]
    ELSE LET t == total_available[r] - amount
         IN  [total |-> t,
              log |-> Append(usage_log[r],
                             [resource |-> name[r], amount |-> amount,
                              remaining |-> Round2(t), timestamp |-> now]),
              result |-> [glyph |-> "ok", kind |-> "Consumed",
                          name |-> name[r], amount |-> amount,
                          remaining |-> Round2(t)]]

\* update_availability refusing a request for exactly the remaining quantity.
update_availability_RefusesWhole(r, amount, now) ==
    IF amount <= 0
    THEN [total |-> total_available[r], log |-> usage_log[r],
          result |-> [glyph |-> "warn", kind |-> "InvalidAmount", amount |-> amount]]
    ELSE IF amount >= total_available[r]
    THEN [total |-> total_available[r], log |-> usage_log[r],
          result |-> [glyph |-> "warn", kind |-> "InsufficientQuantity",
                      name |-> name[r], amount |-> amount,
                      available |-> Round2(total_available[r])]]
    ELSE LET t == total_available[r] - amount
         IN  [total |-> t,
              log |-> Append(usage_log[r],
                             [resource |-> name[r], amount |-> amount,
                              remaining |-> Round2(t), timestamp |-> now]),
              result |-> [glyph |-> "ok", kind |-> "Consumed",
                          name |-> name[r], amount |-> amount,
                          remaining |-> Round2(t)]]

\* update_availability writing the log entry before the subtraction.
update_availability_LogsBefore(r, amount, now) ==
    IF amount <= 0
    THEN [total |-> total_available[r], log |-> usage_log[r],
          result |-> [glyph |-> "warn", kind |-> "InvalidAmount", amount |-> amount]]
    ELSE IF amount > total_available[r]
    THEN [total |-> total_available[r], log |-> usage_log[r],
          result |-> [glyph |-> "warn", kind |-> "InsufficientQuantity",
                      name |-> name[r], amount |-> amount,
                      available |-> Round2(total_available[r])]]
    ELSE LET t == total_available[r] - amount
         IN  [total |-> t,
              log |-> Append(usage_log[r],
                             [resource |-> name[r], amount |-> amount,
                              remaining |-> Round2(total_available[r]),
                              timestamp |-> now]),
              result |-> [glyph |-> "ok", kind |-> "Consumed",
                          name |-> name[r], amount |-> amount,
                          remaining |-> Round2(t)]]

\* update_availability refilling a renewable resource that cannot serve a
\* request.
update_availability_Replenishes(r, amount, now) ==
    IF amount <= 0
    THEN [total |-> total_available[r], log |-> usage_log[r],
          result |-> [glyph |-> "warn", kind |-> "InvalidAmount", amount |-> amount]]
    ELSE IF amount > total_available[r]
    THEN [total |-> IF renewable[r] THEN initial_amount[r] ELSE total_available[r],
          log |-> usage_log[r],
          result |-> [glyph |-> "warn", kind |-> "InsufficientQuantity",
                      name |-> name[r], amount |-> amount,
                      available |-> Round2(total_available[r])]]
    ELSE LET t == total_available[r] - amount
         IN  [total |-> t,
              log |-> Append(usage_log[r],
                             [resource |-> name[r], amount |-> amount,
                              remaining |-> Round2(t), timestamp |-> now]),
              result |-> [glyph |-> "ok", kind |-> "Consumed",
                          name |-> name[r], amount |-> amount,
                          remaining |-> Round2(t)]]

\* Variant: a deposit into a waste facility adds to its quantity.
update_availability_WasteAccumulates(r, amount, now) ==
    IF amount <= 0
    THEN [total |-> total_available[r], log |-> usage_log[r],
          result |-> [glyph |-> "warn", kind |-> "InvalidAmount", amount |-> amount]]
    ELSE IF amount > total_available[r]
    THEN [total |-> total_available[r], log |-> usage_log[r],
          result |-> [glyph |-> "warn", kind |-> "InsufficientQuantity",
                      name |-> name[r], amount |-> amount,
                      available |-> Round2(total_available[r])]]
    ELSE LET t == IF kind[r] = "WasteResource"
                  THEN total_available[r] + amount
                  ELSE total_available[r] - amount
         IN  [total |-> t,
              log |-> Append(usage_log[r],
                             [resource |-> name[r], amount |-> amount,
                              remaining |-> Round2(t), timestamp |-> now]),
              result |-> [glyph |-> "ok", kind |-> "Consumed",
                          name |-> name[r], amount |-> amount,
                          remaining |-> Round2(t)]]

\* Resource.update_availability: the new state of the resource and the
\* returned message.
update_availability(r, amount, now) ==
    IF amount <= 0
    THEN [total |-> total_available[r], log |-> usage_log[r],
          result |-> [glyph |-> "warn", kind |-> "InvalidAmount", amount |-> amount]]
    ELSE IF amount > total_available[r]
    THEN [total |-> total_available[r], log |-> usage_log[r],
          result |-> [glyph |-> "warn", kind |-> "InsufficientQuantity",
                      name |-> name[r], amount |-> amount,
                      available |-> Round2(total_available[r])]]
    ELSE LET t == total_available[r] - amount
         IN  [total |-> t,
              log |-> Append(usage_log[r],
                             [resource |-> name[r], amount |-> amount,
                              remaining |-> Round2(t), timestamp |-> now]),
              result |-> [glyph |-> "ok", kind |-> "Consumed",
                          name |-> name[r], amount |-> amount,
                          remaining |-> Round2(t)]]

\* Variant: the percentage is taken of what is left.
usage_figures_OfRemaining(initial, available) ==
    LET consumed == initial - available
        utilisation == IF initial > 0 THEN RoundPct(available, initial) ELSE 0
    IN  [total_available |-> Round2(available),
         consumed |-> Round2(consumed),
         utilisation_pct |-> utilisation]

\* The figures of Resource.report_usage for an initial amount and a
\* remaining quantity.
usage_figures(initial, available) ==
    LET consumed == initial - available
        utilisation == IF initial > 0 THEN RoundPct(consumed, initial) ELSE 0
    IN  [total_available |-> Round2(available),
         consumed |-> Round2(consumed),
         utilisation_pct |-> utilisation]

\* Resource.report_usage (base class).
base_report_usage(r) ==
    LET figures == usage_figures(initial_amount[r], total_available[r])
    IN  [name |-> name[r],
         total_available |-> figures.total_available,
         consumed |-> figures.consumed,
         renewable |-> renewable[r],
         utilisation_pct |-> figures.utilisation_pct]

\* Variant: each override builds a record of its own.
report_usage_Replaces(r) ==
    LET b == base_report_usage(r)
    IN  CASE kind[r] = "WaterResource" ->
               [name |-> b.name, unit |-> "litres", source |-> extra[r]]
          [] kind[r] = "EnergyResource" ->
               [name |-> b.name, unit |-> "kWh", energy_type |-> extra[r]]
          [] kind[r] = "WasteResource" ->
               [name |-> b.name, unit |-> "kg", waste_category |-> extra[r],
                label_consumed |-> "waste_deposited"]
          [] OTHER -> b

\* report_usage with the override of the instance's class.
report_usage(r) ==
    LET b == base_report_usage(r)
    IN  CASE kind[r] = "WaterResource" ->
               [name |-> b.name, total_available |-> b.total_available,
                consumed |-> b.consumed, renewable |-> b.renewable,
                utilisation_pct |-> b.utilisation_pct,
                unit |-> "litres", source |-> extra[r]]
          [] kind[r] = "EnergyResource" ->
               [name |-> b.name, total_available |-> b.total_available,
                consumed |-> b.consumed, renewable |-> b.renewable,
                utilisation_pct |-> b.utilisation_pct,
                unit |-> "kWh", energy_type |-> extra[r]]
          [] kind[r] = "WasteResource" ->
               [name |-> b.name, total_available |-> b.total_available,
                consumed |-> b.consumed, renewable |-> b.renewable,
                utilisation_pct |-> b.utilisation_pct,
                unit |-> "kg", waste_category |-> extra[r],
                label_consumed |-> "waste_deposited"]
          [] OTHER -> b

\* ---------------------------------------------------------- construction
\* The classes, with the name each passes to Resource.__init__ and its
\* default for renewable.
Kinds == {"WaterResource", "EnergyResource", "WasteResource"}
KindName(k) ==
    CASE k = "WaterResource" -> "Water"
      [] k = "EnergyResource" -> "Electricity"
      [] k = "WasteResource" -> "Waste"
KindRenewable(k) == k # "WasteResource"

\* The resources a run constructs: two water supplies, as water and
\* extra_water in main.py; or an empty water supply and a waste facility.
ResourceConstructions ==
    {[r \in Resources |->
        IF r = "r1" THEN [kind |-> "WaterResource", quantity |-> 250, extra |-> "River"]
                    ELSE [kind |-> "WaterResource", quantity |-> 125, extra |-> "Groundwater"]],
     [r \in Resources |->
        IF r = "r1" THEN [kind |-> "WaterResource", quantity |-> 0, extra |-> "River"]
                    ELSE [kind |-> "WasteResource", quantity |-> 125, extra |-> "Recyclable"]]}

\* The caller keeps no object.
Nothing == [what |-> "nothing"]

\* No call is in progress on the thread.
Idle == [pc |-> "idle"]

\* Consumer.__init__: 'assigned_resources or []' keeps the caller's list
\* object when it is non-empty and makes a fresh list otherwise.
consumer_init(c, arg) == IF arg # NoList /\ lists[arg] # <<>> THEN arg ELSE OwnList(c)

Init ==
    /\ \E k \in ResourceConstructions :
          /\ kind = [r \in Resources |-> k[r].kind]
          /\ name = [r \in Resources |-> KindName(k[r].kind)]
          /\ renewable = [r \in Resources |-> KindRenewable(k[r].kind)]
          /\ extra = [r \in Resources |-> k[r].extra]
          /\ total_available = [r \in Resources |-> k[r].quantity]
          /\ initial_amount = [r \in Resources |-> k[r].quantity]
    /\ usage_log = [r \in Resources |-> <<>>]
    /\ \E k \in Constructions :
          /\ lists = [l \in ListIds |-> IF l = SeedList THEN k.seed ELSE <<>>]
          /\ assigned_resources = [c \in Consumers |-> consumer_init(c, k.args[c])]
    /\ consumption_history = [c \in Consumers |-> <<>>]
    /\ ret = [op |-> "init"]
    /\ held = Nothing
    /\ threads = [c \in Consumers |-> Idle]
    /\ pc = 0

\* The construction of main.py: two water supplies, and every consumer built
\* without a list of resources.
InitAsMain ==
    /\ Init
    /\ \A r \in Resources : kind[r] = "WaterResource"
    /\ \A c \in Consumers : assigned_resources[c] = OwnList(c)

\* --------------------------------------------------------------- actions
\* A direct call resource.update_availability(amount).
CallUpdateAvailability(r, amount, now) ==
    LET out == update_availability(r, amount, now)
    IN  /\ total_available' = [total_available EXCEPT ![r] = out.total]
        /\ usage_log' = [usage_log EXCEPT ![r] = out.log]
        /\ ret' = [op |-> "update_availability", resource |-> r, amount |-> amount,
                   result |-> out.result]
        /\ UNCHANGED <<kind, name, initial_amount, renewable, extra, consumerVars,
                       callerVars>>

\* A call resource.report_usage().
CallReportUsage(r) ==
    /\ ret' = [op |-> "report_usage", resource |-> r, result |-> report_usage(r)]
    /\ UNCHANGED <<resourceVars, consumerVars, callerVars>>

\* Variant: assign_resource answering 'assigned' for a resource already held.
assign_resource_AlwaysAssigned(c, r) ==
    IF Contains(Assigned(c), r)
    THEN [list |-> Assigned(c),
          result |-> [glyph |-> "ok", kind |-> "Assigned",
                      name |-> name[r], consumer |-> ConsumerName(c)]]
    ELSE [list |-> Append(Assigned(c), r),
          result |-> [glyph |-> "ok", kind |-> "Assigned",
                      name |-> name[r], consumer |-> ConsumerName(c)]]

\* Variant: assign_resource putting the new resource in place of the list.
assign_resource_Replaces(c, r) ==
    IF Contains(Assigned(c), r)
    THEN [list |-> Assigned(c),
          result |-> [glyph |-> "warn", kind |-> "DuplicateAssignment",
                      name |-> name[r], consumer |-> ConsumerName(c)]]
    ELSE [list |-> <<r>>,
          result |-> [glyph |-> "ok", kind |-> "Assigned",
                      name |-> name[r], consumer |-> ConsumerName(c)]]

\* Consumer.assign_resource: the new contents of the consumer's list and the
\* returned message.
assign_resource(c, r) ==
    IF Contains(Assigned(c), r)
    THEN [list |-> Assigned(c),
          result |-> [glyph |-> "warn", kind |-> "DuplicateAssignment",
                      name |-> name[r], consumer |-> ConsumerName(c)]]
    ELSE [list |-> Append(Assigned(c), r),
          result |-> [glyph |-> "ok", kind |-> "Assigned",
                      name |-> name[r], consumer |-> ConsumerName(c)]]

CallAssignResource(c, r) ==
    LET out == assign_resource(c, r)
    IN  /\ lists' = [lists EXCEPT ![assigned_resources[c]] = out.list]
        /\ ret' = [op |-> "assign_resource", consumer |-> c, resource |-> r,
                   result |-> out.result]
        /\ UNCHANGED <<resourceVars, assigned_resources, consumption_history,
                       callerVars>>

\* use_resource copying the rounded 'remaining' of the log entry into the
\* history.
use_resource_RoundedRemaining(c, r, amount, now) ==
    IF ~Contains(Assigned(c), r)
    THEN [total |-> total_available[r], log |-> usage_log[r],
          history |-> consumption_history[c],
          result |-> [glyph |-> "warn", kind |-> "NotAssigned",
                      name |-> name[r], consumer |-> ConsumerName(c)]]
    ELSE LET out == update_availability(r, amount, now)
         IN  [total |-> out.total, log |-> out.log,
              history |-> IF StartsWithCheck(out.result)
                          THEN Append(consumption_history[c],
                                      [consumer |-> ConsumerName(c),
                                       resource |-> name[r],
                                       amount |-> amount,
                                       remaining |-> Round2(out.total)])
                          ELSE consumption_history[c],
              result |-> out.result]

\* use_resource answering a refused request with a message of its own.
use_resource_OwnMessage(c, r, amount, now) ==
    IF ~Contains(Assigned(c), r)
    THEN [total |-> total_available[r], log |-> usage_log[r],
          history |-> consumption_history[c],
          result |-> [glyph |-> "warn", kind |-> "NotAssigned",
                      name |-> name[r], consumer |-> ConsumerName(c)]]
    ELSE LET out == update_availability(r, amount, now)
         IN  [total |-> out.total, log |-> out.log,
              history |-> IF StartsWithCheck(out.result)
                          THEN Append(consumption_history[c],
                                      [consumer |-> ConsumerName(c),
                                       resource |-> name[r],
                                       amount |-> amount,
                                       remaining |-> out.total])
                          ELSE consumption_history[c],
              result |-> IF StartsWithCheck(out.result)
                         THEN out.result
                         ELSE [glyph |-> "warn", kind |-> "Refused",
                               name |-> name[r], consumer |-> ConsumerName(c)]]

\* Variant: the consumer draws from a private copy of the resource.
use_resource_PrivateCopy(c, r, amount, now) ==
    IF ~Contains(Assigned(c), r)
    THEN [total |-> total_available[r], log |-> usage_log[r],
          history |-> consumption_history[c],
          result |-> [glyph |-> "warn", kind |-> "NotAssigned",
                      name |-> name[r], consumer |-> ConsumerName(c)]]
    ELSE LET out == update_availability(r, amount, now)
         IN  [total |-> total_available[r], log |-> usage_log[r],
              history |-> IF StartsWithCheck(out.result)
                          THEN Append(consumption_history[c],
                                      [consumer |-> ConsumerName(c),
                                       resource |-> name[r],
                                       amount |-> amount,
                                       remaining |-> out.total])
                          ELSE consumption_history[c],
              result |-> out.result]

\* Variant: every forwarded request is written to the history, served or not.
use_resource_RecordsRefusals(c, r, amount, now) ==
    IF ~Contains(Assigned(c), r)
    THEN [total |-> total_available[r], log |-> usage_log[r],
          history |-> consumption_history[c],
          result |-> [glyph |-> "warn", kind |-> "NotAssigned",
                      name |-> name[r], consumer |-> ConsumerName(c)]]
    ELSE LET out == update_availability(r, amount, now)
         IN  [total |-> out.total, log |-> out.log,
              history |-> Append(consumption_history[c],
                                 [consumer |-> ConsumerName(c),
                                  resource |-> name[r],
                                  amount |-> amount,
                                  remaining |-> out.total]),
              result |-> out.result]

\* Consumer.use_resource: the new state of the resource, the new history of
\* the consumer and the returned message.
use_resource(c, r, amount, now) ==
    IF ~Contains(Assigned(c), r)
    THEN [total |-> total_available[r], log |-> usage_log[r],
          history |-> consumption_history[c],
          result |-> [glyph |-> "warn", kind |-> "NotAssigned",
                      name |-> name[r], consumer |-> ConsumerName(c)]]
    ELSE LET out == update_availability(r, amount, now)
         IN  [total |-> out.total, log |-> out.log,
              history |-> IF StartsWithCheck(out.result)
                          THEN Append(consumption_history[c],
                                      [consumer |-> ConsumerName(c),
                                       resource |-> name[r],
                                       amount |-> amount,
                                       remaining |-> out.total])
                          ELSE consumption_history[c],
              result |-> out.result]

CallUseResource(c, r, amount, now) ==
    LET out == use_resource(c, r, amount, now)
    IN  /\ total_available' = [total_available EXCEPT ![r] = out.total]
        /\ usage_log' = [usage_log EXCEPT ![r] = out.log]
        /\ consumption_history' = [consumption_history EXCEPT ![c] = out.history]
        /\ ret' = [op |-> "use_resource", consumer |-> c, resource |-> r,
                   amount |-> amount, result |-> out.result]
        /\ UNCHANGED <<kind, name, initial_amount, renewable, extra,
                       assigned_resources, lists, callerVars>>

\* Variant: the event count is the number of assigned resources.
generate_usage_report_CountsResources(c) ==
    [consumer_id |-> ConsumerId(c),
     name |-> ConsumerName(c),
     resources |-> [i \in 1 .. Len(Assigned(c)) |-> report_usage(Assigned(c)[i])],
     consumption_history |-> consumption_history[c],
     total_consumption_events |-> Len(Assigned(c))]

\* Consumer.generate_usage_report.
generate_usage_report(c) ==
    [consumer_id |-> ConsumerId(c),
     name |-> ConsumerName(c),
     resources |-> [i \in 1 .. Len(Assigned(c)) |-> report_usage(Assigned(c)[i])],
     consumption_history |-> consumption_history[c],
     total_consumption_events |-> Len(consumption_history[c])]

\* Variant: the report hands the history over and starts a new one.
CallGenerateUsageReport_Drains(c) ==
    /\ ret' = [op |-> "generate_usage_report", consumer |-> c,
               result |-> generate_usage_report(c)]
    /\ consumption_history' = [consumption_history EXCEPT ![c] = <<>>]
    /\ UNCHANGED <<resourceVars, assigned_resources, lists, callerVars>>

\* A call consumer.generate_usage_report().
CallGenerateUsageReport(c) ==
    /\ ret' = [op |-> "generate_usage_report", consumer |-> c,
               result |-> generate_usage_report(c)]
    /\ UNCHANGED <<resourceVars, consumerVars, callerVars>>

\* datetime.now() is read only on the success path of update_availability.
ClockReads(r, amount) ==
    IF amount > 0 /\ amount <= total_available[r] THEN Timestamps ELSE {0}

Next ==
    \/ \E r \in Resources, amount \in Amounts :
          \E now \in ClockReads(r, amount) : CallUpdateAvailability(r, amount, now)
    \/ \E r \in Resources : CallReportUsage(r)
    \/ \E c \in Consumers, r \in Resources : CallAssignResource(c, r)
    \/ \E c \in Consumers, r \in Resources, amount \in Amounts :
          \E now \in ClockReads(r, amount) : CallUseResource(c, r, amount, now)
    \/ \E c \in Consumers : CallGenerateUsageReport(c)

Spec == Init /\ [][Next]_vars

\* ---------------------------------------------------------------- caller
\* The consumer the caller works with, as household in main.py.
household == "c1"

\* The record generate_usage_report hands to its caller: "resources" is a new
\* list of new records, "consumption_history" is the consumer's own list
\* object, named here by the consumer it belongs to.
kept_usage_report(c) ==
    [what |-> "usage_report",
     consumer_id |-> ConsumerId(c),
     name |-> ConsumerName(c),
     resources |-> [i \in 1 .. Len(Assigned(c)) |-> report_usage(Assigned(c)[i])],
     consumption_history |-> [list_of |-> c],
     total_consumption_events |-> Len(consumption_history[c])]

\* held["consumption_history"], as the caller reads it now.
HeldHistory == consumption_history[held.consumption_history.list_of]

\* report = consumer.generate_usage_report(), and the caller keeps report.
KeepUsageReport(c) ==
    /\ held' = kept_usage_report(c)
    /\ ret' = [op |-> "generate_usage_report", consumer |-> c,
               result |-> generate_usage_report(c)]
    /\ UNCHANGED <<resourceVars, consumerVars, threads, pc>>

\* report["consumption_history"].clear(), by the caller that keeps report.
ClearHeldHistory ==
    /\ held.what = "usage_report"
    /\ consumption_history' =
          [consumption_history EXCEPT ![held.consumption_history.list_of] = <<>>]
    /\ ret' = [op |-> "clear_held_history"]
    /\ UNCHANGED <<resourceVars, assigned_resources, lists, held, threads, pc>>

\* A caller that assigns and consumes for one consumer, keeps its usage
\* report and changes it.
NextReportHeld ==
    \/ \E r \in Resources : CallAssignResource(household, r)
    \/ \E r \in Resources, amount \in Amounts :
          \E now \in ClockReads(r, amount) : CallUseResource(household, r, amount, now)
    \/ KeepUsageReport(household)
    \/ ClearHeldHistory

SpecReportHeld == Init /\ [][NextReportHeld]_vars

\* Variant: the accessor hands out the resource's own list object.
usage_log_property_OwnList(r) ==
    [what |-> "usage_log", resource |-> r, list |-> "of the resource",
     items |-> <<>>]

\* The usage_log property: a new list with the entries of the log.
usage_log_property(r) ==
    [what |-> "usage_log", resource |-> r, list |-> "new",
     items |-> usage_log[r]]

\* log = resource.usage_log, and the caller keeps log.
KeepUsageLog(r) ==
    /\ held' = usage_log_property(r)
    /\ ret' = [op |-> "usage_log", resource |-> r, result |-> usage_log[r]]
    /\ UNCHANGED <<resourceVars, consumerVars, threads, pc>>

\* log.clear(), by the caller that keeps log: it empties the list object
\* the caller was handed.
ClearHeldLog ==
    /\ held.what = "usage_log"
    /\ IF held.list = "new"
       THEN /\ held' = [held EXCEPT !.items = <<>>]
            /\ UNCHANGED usage_log
       ELSE /\ usage_log' = [usage_log EXCEPT ![held.resource] = <<>>]
            /\ UNCHANGED held
    /\ ret' = [op |-> "clear_held_log"]
    /\ UNCHANGED <<kind, name, total_available, initial_amount, renewable,
                   extra, consumerVars, threads, pc>>

\* The public operations on the resources and on one consumer, with a caller
\* that keeps a usage log and clears it.
NextLogHeld ==
    \/ \E r \in Resources, amount \in Amounts :
          \E now \in ClockReads(r, amount) : CallUpdateAvailability(r, amount, now)
    \/ \E r \in Resources : CallReportUsage(r)
    \/ \E r \in Resources : CallAssignResource(household, r)
    \/ \E r \in Resources, amount \in Amounts :
          \E now \in ClockReads(r, amount) : CallUseResource(household, r, amount, now)
    \/ CallGenerateUsageReport(household)
    \/ \E r \in Resources : KeepUsageLog(r)
    \/ ClearHeldLog

SpecLogHeld == InitAsMain /\ [][NextLogHeld]_vars

\* --------------------------------------------------------------- threads
\* Each consumer's use_resource call runs on a thread of its own, and the
\* threads interleave between the statements of update_availability.

\* The constructions in which one of the resources starts empty.
ScarceConstructions ==
    {k \in ResourceConstructions : \E r \in Resources : k[r].quantity = 0}

\* The state after section 2 of main.py: every consumer has been assigned
\* every resource.
InitAssigned(constructions) ==
    /\ \E k \in constructions :
          /\ kind = [r \in Resources |-> k[r].kind]
          /\ name = [r \in Resources |-> KindName(k[r].kind)]
          /\ renewable = [r \in Resources |-> KindRenewable(k[r].kind)]
          /\ extra = [r \in Resources |-> k[r].extra]
          /\ total_available = [r \in Resources |-> k[r].quantity]
          /\ initial_amount = [r \in Resources |-> k[r].quantity]
    /\ usage_log = [r \in Resources |-> <<>>]
    /\ lists = [l \in ListIds |-> IF l = SeedList THEN <<>> ELSE <<"r1", "r2">>]
    /\ assigned_resources = [c \in Consumers |-> OwnList(c)]
    /\ consumption_history = [c \in Consumers |-> <<>>]
    /\ ret = [op |-> "init"]
    /\ held = Nothing
    /\ threads = [c \in Consumers |-> Idle]
    /\ pc = 0

\* consumer.use_resource(resource, amount) is called on c's thread: the
\* membership test and the test of the amount read nothing another thread
\* writes.
ThreadCall(c, r, amount) ==
    /\ threads[c].pc = "idle"
    /\ IF ~Contains(Assigned(c), r)
       THEN /\ ret' = [op |-> "use_resource", consumer |-> c, resource |-> r,
                       amount |-> amount,
                       result |-> [glyph |-> "warn", kind |-> "NotAssigned",
                                   name |-> name[r], consumer |-> ConsumerName(c)]]
            /\ UNCHANGED threads
       ELSE IF amount <= 0
       THEN /\ ret' = [op |-> "use_resource", consumer |-> c, resource |-> r,
                       amount |-> amount,
                       result |-> [glyph |-> "warn", kind |-> "InvalidAmount",
                                   amount |-> amount]]
            /\ UNCHANGED threads
       ELSE /\ threads' = [threads EXCEPT ![c] =
                             [pc |-> "check", resource |-> r, amount |-> amount]]
            /\ UNCHANGED ret
    /\ UNCHANGED <<resourceVars, consumerVars, held, pc>>

\* 'if amount > self._total_available' on c's thread.
ThreadCheck(c) ==
    LET t == threads[c]
    IN  /\ t.pc = "check"
        /\ IF t.amount > total_available[t.resource]
           THEN /\ ret' = [op |-> "use_resource", consumer |-> c,
                           resource |-> t.resource, amount |-> t.amount,
                           result |-> [glyph |-> "warn", kind |-> "InsufficientQuantity",
                                       name |-> name[t.resource], amount |-> t.amount,
                                       available |-> Round2(total_available[t.resource])]]
                /\ threads' = [threads EXCEPT ![c] = Idle]
           ELSE /\ threads' = [threads EXCEPT ![c].pc = "decrement"]
                /\ UNCHANGED ret
        /\ UNCHANGED <<resourceVars, consumerVars, held, pc>>

\* 'self._total_available -= amount' on c's thread, first half: the
\* quantity is read.
ThreadLoad(c) ==
    LET t == threads[c]
    IN  /\ t.pc = "decrement"
        /\ threads' = [threads EXCEPT ![c] =
                         [pc |-> "store", resource |-> t.resource, amount |-> t.amount,
                          loaded |-> total_available[t.resource]]]
        /\ UNCHANGED <<resourceVars, consumerVars, ret, held, pc>>

\* Variant: the write-back is a compare-and-subtract on the quantity of the
\* moment.
ThreadStore_CompareAndSubtract(c) ==
    LET t == threads[c]
    IN  /\ t.pc = "store"
        /\ IF t.amount > total_available[t.resource]
           THEN /\ ret' = [op |-> "use_resource", consumer |-> c,
                           resource |-> t.resource, amount |-> t.amount,
                           result |-> [glyph |-> "warn", kind |-> "InsufficientQuantity",
                                       name |-> name[t.resource], amount |-> t.amount,
                                       available |-> Round2(total_available[t.resource])]]
                /\ threads' = [threads EXCEPT ![c] = Idle]
                /\ UNCHANGED total_available
           ELSE /\ total_available' = [total_available EXCEPT ![t.resource] = @ - t.amount]
                /\ threads' = [threads EXCEPT ![c] =
                                 [pc |-> "log", resource |-> t.resource,
                                  amount |-> t.amount]]
                /\ UNCHANGED ret
        /\ UNCHANGED <<kind, name, initial_amount, renewable, extra, usage_log,
                       consumerVars, held, pc>>

\* 'self._total_available -= amount' on c's thread, second half: the
\* difference is written back.
ThreadStore(c) ==
    LET t == threads[c]
    IN  /\ t.pc = "store"
        /\ total_available' =
              [total_available EXCEPT ![t.resource] = t.loaded - t.amount]
        /\ threads' = [threads EXCEPT ![c] =
                         [pc |-> "log", resource |-> t.resource, amount |-> t.amount]]
        /\ UNCHANGED <<kind, name, initial_amount, renewable, extra, usage_log,
                       consumerVars, ret, held, pc>>

\* The rest of the call on c's thread: the log entry, the message and the
\* entry of the consumer's history.
ThreadFinish(c, now) ==
    LET t == threads[c]
        remaining == total_available[t.resource]
    IN  /\ t.pc = "log"
        /\ usage_log' = [usage_log EXCEPT ![t.resource] =
                           Append(@, [resource |-> name[t.resource], amount |-> t.amount,
                                      remaining |-> Round2(remaining), timestamp |-> now])]
        /\ consumption_history' = [consumption_history EXCEPT ![c] =
                                     Append(@, [consumer |-> ConsumerName(c),
                                                resource |-> name[t.resource],
                                                amount |-> t.amount,
                                                remaining |-> remaining])]
        /\ ret' = [op |-> "use_resource", consumer |-> c, resource |-> t.resource,
                   amount |-> t.amount,
                   result |-> [glyph |-> "ok", kind |-> "Consumed",
                               name |-> name[t.resource], amount |-> t.amount,
                               remaining |-> Round2(remaining)]]
        /\ threads' = [threads EXCEPT ![c] = Idle]
        /\ UNCHANGED <<kind, name, total_available, initial_amount, renewable,
                       extra, assigned_resources, lists, held, pc>>

\* The threads of the consumers, switched between any two statements.
NextThreads ==
    \/ \E c \in Consumers, r \in Resources, amount \in Amounts : ThreadCall(c, r, amount)
    \/ \E c \in Consumers : ThreadCheck(c)
    \/ \E c \in Consumers : ThreadLoad(c)
    \/ \E c \in Consumers : ThreadStore(c)
    \/ \E c \in Consumers, now \in Timestamps : ThreadFinish(c, now)

SpecThreads == InitAssigned(ScarceConstructions) /\ [][NextThreads]_vars

\* Variant: the check, the read and the write-back as steps of their own.
ThreadCheckAndDecrement_Unlocked(c) == ThreadCheck(c) \/ ThreadLoad(c) \/ ThreadStore(c)

\* Lines 104 to 110 of update_availability run on c's thread without a
\* switch to another thread: the check and the decrement are one step.
ThreadCheckAndDecrement(c) ==
    LET t == threads[c]
    IN  /\ t.pc = "check"
        /\ IF t.amount > total_available[t.resource]
           THEN /\ ret' = [op |-> "use_resource", consumer |-> c,
                           resource |-> t.resource, amount |-> t.amount,
                           result |-> [glyph |-> "warn", kind |-> "InsufficientQuantity",
                                       name |-> name[t.resource], amount |-> t.amount,
                                       available |-> Round2(total_available[t.resource])]]
                /\ threads' = [threads EXCEPT ![c] = Idle]
                /\ UNCHANGED total_available
           ELSE /\ total_available' = [total_available EXCEPT ![t.resource] = @ - t.amount]
                /\ threads' = [threads EXCEPT ![c].pc = "log"]
                /\ UNCHANGED ret
        /\ UNCHANGED <<kind, name, initial_amount, renewable, extra, usage_log,
                       consumerVars, held, pc>>

\* The threads of the consumers with the check and the decrement as one step.
NextLocked ==
    \/ \E c \in Consumers, r \in Resources, amount \in Amounts : ThreadCall(c, r, amount)
    \/ \E c \in Consumers : ThreadCheckAndDecrement(c)
    \/ \E c \in Consumers, now \in Timestamps : ThreadFinish(c, now)

SpecLocked == InitAssigned(ResourceConstructions) /\ [][NextLocked]_vars

\* ----------------------------------------------------------------- kinds
\* Two resources of any two classes are built with the same quantity and
\* are handed the same amounts, call by call.

\* The default of each class for its own attribute.
KindDefaultExtra(k) ==
    CASE k = "WaterResource" -> "Reservoir"
      [] k = "EnergyResource" -> "Solar"
      [] k = "WasteResource" -> "Recyclable"

\* The quantities the pair of resources is built with.
PairQuantities == {125, 250}

InitPair ==
    /\ kind \in [Resources -> Kinds]
    /\ name = [r \in Resources |-> KindName(kind[r])]
    /\ renewable = [r \in Resources |-> KindRenewable(kind[r])]
    /\ extra = [r \in Resources |-> KindDefaultExtra(kind[r])]
    /\ \E q \in PairQuantities :
          /\ total_available = [r \in Resources |-> q]
          /\ initial_amount = [r \in Resources |-> q]
    /\ usage_log = [r \in Resources |-> <<>>]
    /\ lists = [l \in ListIds |-> <<>>]
    /\ assigned_resources = [c \in Consumers |-> OwnList(c)]
    /\ consumption_history = [c \in Consumers |-> <<>>]
    /\ ret = [op |-> "init"]
    /\ held = Nothing
    /\ threads = [c \in Consumers |-> Idle]
    /\ pc = 0

\* update_availability(amount) is called on each of the resources in turn.
CallUpdateAvailabilityOnEach(amount, now) ==
    /\ total_available' = [r \in Resources |-> update_availability(r, amount, now).total]
    /\ usage_log' = [r \in Resources |-> update_availability(r, amount, now).log]
    /\ ret' = [op |-> "update_availability_on_each", amount |-> amount,
               results |-> [r \in Resources |-> update_availability(r, amount, now).result]]
    /\ UNCHANGED <<kind, name, initial_amount, renewable, extra, consumerVars,
                   callerVars>>

NextPair ==
    \/ \E amount \in Amounts, now \in Timestamps :
          CallUpdateAvailabilityOnEach(amount, now)
    \/ \E r \in Resources : CallReportUsage(r)

SpecPair == InitPair /\ [][NextPair]_vars

\* ------------------------------------------------------------------ demo
\* The console demonstration of main.py, call by call.

\* A quantity of whole units.
Units(n) == n * 1000

\* water, energy, waste and extra_water of main.py.
DemoResources == {"water", "energy", "waste", "extra_water"}

DemoConstruction ==
    [r \in DemoResources |->
        CASE r = "water" ->
               [kind |-> "WaterResource", quantity |-> Units(10000), extra |-> "River"]
          [] r = "energy" ->
               [kind |-> "EnergyResource", quantity |-> Units(5000), extra |-> "Solar"]
          [] r = "waste" ->
               [kind |-> "WasteResource", quantity |-> Units(2000), extra |-> "Recyclable"]
          [] r = "extra_water" ->
               [kind |-> "WaterResource", quantity |-> Units(500), extra |-> "Groundwater"]]

\* household and factory of main.py.
factory == "c2"

Assign(c, r) == [op |-> "assign_resource", consumer |-> c, resource |-> r]
Use(c, r, n) == [op |-> "use_resource", consumer |-> c, resource |-> r, amount |-> Units(n)]

\* The calls main.py makes, in its order.
Script ==
    << Assign(household, "water"), Assign(household, "energy"), Assign(household, "waste"),
       Assign(factory, "water"), Assign(factory, "energy"), Assign(factory, "waste"),
       Use(household, "water", 1500), Use(household, "energy", 800),
       Use(household, "waste", 300),
       Use(factory, "water", 4000), Use(factory, "energy", 2200),
       Use(factory, "waste", 1000),
       Use(factory, "water", 9999),
       Use(household, "energy", -50),
       Use(household, "extra_water", 100),
       [op |-> "generate_usage_report", consumer |-> household],
       [op |-> "generate_usage_report", consumer |-> factory],
       [op |-> "report_usage", resource |-> "water"],
       [op |-> "report_usage", resource |-> "energy"],
       [op |-> "report_usage", resource |-> "waste"] >>

\* The seconds the clock can show while the demonstration runs.
DemoTimestamps == 0 .. MaxClock + 1

InitDemo ==
    /\ kind = [r \in DemoResources |-> DemoConstruction[r].kind]
    /\ name = [r \in DemoResources |-> KindName(DemoConstruction[r].kind)]
    /\ renewable = [r \in DemoResources |-> KindRenewable(DemoConstruction[r].kind)]
    /\ extra = [r \in DemoResources |-> DemoConstruction[r].extra]
    /\ total_available = [r \in DemoResources |-> DemoConstruction[r].quantity]
    /\ initial_amount = [r \in DemoResources |-> DemoConstruction[r].quantity]
    /\ usage_log = [r \in DemoResources |-> <<>>]
    /\ lists = [l \in ListIds |-> <<>>]
    /\ assigned_resources = [c \in Consumers |-> OwnList(c)]
    /\ consumption_history = [c \in Consumers |-> <<>>]
    /\ ret = [op |-> "init"]
    /\ held = Nothing
    /\ threads = [c \in Consumers |-> Idle]
    /\ pc = 0

\* The next call of the script is op.
NextCall(op) == pc < Len(Script) /\ Script[pc + 1].op = op

DemoAssign ==
    /\ NextCall("assign_resource")
    /\ LET call == Script[pc + 1]
           out == assign_resource(call.consumer, call.resource)
       IN  /\ lists' = [lists EXCEPT ![assigned_resources[call.consumer]] = out.list]
           /\ ret' = [op |-> "assign_resource", consumer |-> call.consumer,
                      resource |-> call.resource, result |-> out.result]
    /\ pc' = pc + 1
    /\ UNCHANGED <<resourceVars, assigned_resources, consumption_history, held, threads>>

DemoUse(now) ==
    /\ NextCall("use_resource")
    /\ LET call == Script[pc + 1]
           out == use_resource(call.consumer, call.resource, call.amount, now)
       IN  /\ total_available' = [total_available EXCEPT ![call.resource] = out.total]
           /\ usage_log' = [usage_log EXCEPT ![call.resource] = out.log]
           /\ consumption_history' =
                 [consumption_history EXCEPT ![call.consumer] = out.history]
           /\ ret' = [op |-> "use_resource", consumer |-> call.consumer,
                      resource |-> call.resource, amount |-> call.amount,
                      result |-> out.result]
    /\ pc' = pc + 1
    /\ UNCHANGED <<kind, name, initial_amount, renewable, extra, assigned_resources,
                   lists, held, threads>>

DemoUsageReport ==
    /\ NextCall("generate_usage_report")
    /\ ret' = [op |-> "generate_usage_report", consumer |-> Script[pc + 1].consumer,
               result |-> generate_usage_report(Script[pc + 1].consumer)]
    /\ pc' = pc + 1
    /\ UNCHANGED <<resourceVars, consumerVars, held, threads>>

DemoReportUsage ==
    /\ NextCall("report_usage")
    /\ ret' = [op |-> "report_usage", resource |-> Script[pc + 1].resource,
               result |-> report_usage(Script[pc + 1].resource)]
    /\ pc' = pc + 1
    /\ UNCHANGED <<resourceVars, consumerVars, held, threads>>

NextDemo ==
    \/ DemoAssign
    \/ \E now \in DemoTimestamps : DemoUse(now)
    \/ DemoUsageReport
    \/ DemoReportUsage

SpecDemo == InitDemo /\ [][NextDemo]_vars

\* ------------------------------------------------------------- dashboard
\* The script of app.py: every user action runs it again from the top, with
\* st.session_state kept between the runs.

\* The resources of the dashboard, as _init_state names them.
DashboardResources == {"water", "energy", "waste"}

\* The amounts entered in the number input (min_value=0.0).
DashboardAmounts == {Units(0), Units(5000)}

\* st.session_state of a new session.
EmptySession == [what |-> "session_state", keys |-> {}]

InitDashboard ==
    /\ kind = [r \in {} |-> ""]
    /\ name = [r \in {} |-> ""]
    /\ renewable = [r \in {} |-> TRUE]
    /\ extra = [r \in {} |-> ""]
    /\ total_available = [r \in {} |-> 0]
    /\ initial_amount = [r \in {} |-> 0]
    /\ usage_log = [r \in {} |-> <<>>]
    /\ lists = [l \in ListIds |-> <<>>]
    /\ assigned_resources = [c \in {} |-> NoList]
    /\ consumption_history = [c \in {} |-> <<>>]
    /\ ret = [op |-> "init"]
    /\ held = EmptySession
    /\ threads = [c \in Consumers |-> Idle]
    /\ pc = 0

\* Variant: _init_state without the tests for the keys of the session.
init_state_Reseeds ==
    /\ pc = 0
    /\ kind' = [r \in DashboardResources |-> DemoConstruction[r].kind]
    /\ name' = [r \in DashboardResources |-> KindName(DemoConstruction[r].kind)]
    /\ renewable' = [r \in DashboardResources |-> KindRenewable(DemoConstruction[r].kind)]
    /\ extra' = [r \in DashboardResources |-> DemoConstruction[r].extra]
    /\ total_available' = [r \in DashboardResources |-> DemoConstruction[r].quantity]
    /\ initial_amount' = [r \in DashboardResources |-> DemoConstruction[r].quantity]
    /\ usage_log' = [r \in DashboardResources |-> <<>>]
    /\ lists' = [l \in ListIds |->
                   IF l = SeedList THEN <<>> ELSE <<"water", "energy", "waste">>]
    /\ assigned_resources' = [c \in Consumers |-> OwnList(c)]
    /\ consumption_history' = [c \in Consumers |-> <<>>]
    /\ held' = [held EXCEPT !.keys = @ \cup {"resources", "consumers"}]
    /\ ret' = [op |-> "_init_state"]
    /\ pc' = 1
    /\ UNCHANGED threads

\* _init_state(), the first statement of a run of the script: the resources
\* and the consumers are created and assigned when the session lacks them.
init_state ==
    /\ pc = 0
    /\ IF "resources" \notin held.keys
       THEN /\ kind' = [r \in DashboardResources |-> DemoConstruction[r].kind]
            /\ name' = [r \in DashboardResources |-> KindName(DemoConstruction[r].kind)]
            /\ renewable' =
                  [r \in DashboardResources |-> KindRenewable(DemoConstruction[r].kind)]
            /\ extra' = [r \in DashboardResources |-> DemoConstruction[r].extra]
            /\ total_available' =
                  [r \in DashboardResources |-> DemoConstruction[r].quantity]
            /\ initial_amount' =
                  [r \in DashboardResources |-> DemoConstruction[r].quantity]
            /\ usage_log' = [r \in DashboardResources |-> <<>>]
       ELSE UNCHANGED resourceVars
    /\ IF "consumers" \notin held.keys
       THEN /\ lists' = [l \in ListIds |->
                           IF l = SeedList THEN <<>> ELSE <<"water", "energy", "waste">>]
            /\ assigned_resources' = [c \in Consumers |-> OwnList(c)]
            /\ consumption_history' = [c \in Consumers |-> <<>>]
       ELSE UNCHANGED consumerVars
    /\ held' = [held EXCEPT !.keys = @ \cup {"resources", "consumers"}]
    /\ ret' = [op |-> "_init_state"]
    /\ pc' = 1
    /\ UNCHANGED threads

\* The sidebar of a run in which the button was pressed: use_resource with
\* the consumer, the resource and the amount selected.
SidebarConsume(c, r, amount, now) ==
    /\ pc = 1
    /\ LET out == use_resource(c, r, amount, now)
       IN  /\ total_available' = [total_available EXCEPT ![r] = out.total]
           /\ usage_log' = [usage_log EXCEPT ![r] = out.log]
           /\ consumption_history' = [consumption_history EXCEPT ![c] = out.history]
           /\ ret' = [op |-> "use_resource", consumer |-> c, resource |-> r,
                      amount |-> amount, result |-> out.result]
    /\ pc' = 0
    /\ UNCHANGED <<kind, name, initial_amount, renewable, extra, assigned_resources,
                   lists, held, threads>>

\* A run in which the button was not pressed: the page is drawn from the
\* reports.
RenderOnly ==
    /\ pc = 1
    /\ ret' = [op |-> "render",
               result |-> [c \in DOMAIN assigned_resources |-> generate_usage_report(c)]]
    /\ pc' = 0
    /\ UNCHANGED <<resourceVars, consumerVars, held, threads>>

NextDashboard ==
    \/ init_state
    \/ \E c \in DOMAIN assigned_resources, r \in DOMAIN total_available :
          \E amount \in DashboardAmounts, now \in Timestamps :
             SidebarConsume(c, r, amount, now)
    \/ RenderOnly

SpecDashboard == InitDashboard /\ [][NextDashboard]_vars

\* ------------------------------------------------------- consumers only
\* Every consumption goes through Consumer.use_resource, on two resources of
\* different classes, whose names tell their history entries apart.
InitDistinct == InitPair /\ kind["r1"] = "WaterResource" /\ kind["r2"] = "WasteResource"

NextConsumers ==
    \/ \E c \in Consumers, r \in Resources : CallAssignResource(c, r)
    \/ \E c \in Consumers, r \in Resources, amount \in Amounts :
          \E now \in ClockReads(r, amount) : CallUseResource(c, r, amount, now)
    \/ \E c \in Consumers : CallGenerateUsageReport(c)

SpecConsumers == InitDistinct /\ [][NextConsumers]_vars

\* ---------------------------------------------------------- whole amounts
\* One resource constructed with a whole quantity and one constructed empty,
\* consumed by whole amounts, directly and through one consumer that is built
\* without resources.
WholeQuantities == {Units(2), Units(3)}

WholeAmounts == {Units(-1), Units(0), Units(1), Units(2)}

InitWhole ==
    /\ kind = [r \in Resources |-> IF r = "r1" THEN "WaterResource" ELSE "WasteResource"]
    /\ name = [r \in Resources |-> KindName(kind[r])]
    /\ renewable = [r \in Resources |-> KindRenewable(kind[r])]
    /\ extra = [r \in Resources |-> KindDefaultExtra(kind[r])]
    /\ \E q \in WholeQuantities :
          total_available = [r \in Resources |-> IF r = "r1" THEN q ELSE Units(0)]
    /\ initial_amount = total_available
    /\ usage_log = [r \in Resources |-> <<>>]
    /\ lists = [l \in ListIds |-> <<>>]
    /\ assigned_resources = [c \in Consumers |-> OwnList(c)]
    /\ consumption_history = [c \in Consumers |-> <<>>]
    /\ ret = [op |-> "init"]
    /\ held = Nothing
    /\ threads = [c \in Consumers |-> Idle]
    /\ pc = 0

NextWhole ==
    \/ \E r \in Resources, amount \in WholeAmounts :
          \E now \in ClockReads(r, amount) : CallUpdateAvailability(r, amount, now)
    \/ \E r \in Resources : CallAssignResource(household, r)
    \/ \E r \in Resources, amount \in WholeAmounts :
          \E now \in ClockReads(r, amount) : CallUseResource(household, r, amount, now)

SpecWhole == InitWhole /\ [][NextWhole]_vars

\* ---------------------------------------------------------- large supply
\* The water supply of main.py, 10000 litres, beside a resource constructed
\* empty; amounts that are small, half and nearly all of the supply are
\* consumed directly, and the usage is reported.
MaxEvents == 3

LargeAmounts == {-125, 250, Units(5000), Units(10000) - 250}

InitLarge ==
    /\ kind = [r \in Resources |-> IF r = "r1" THEN "WaterResource" ELSE "WasteResource"]
    /\ name = [r \in Resources |-> KindName(kind[r])]
    /\ renewable = [r \in Resources |-> KindRenewable(kind[r])]
    /\ extra = [r \in Resources |-> IF r = "r1" THEN "River" ELSE "Recyclable"]
    /\ total_available = [r \in Resources |-> IF r = "r1" THEN Units(10000) ELSE Units(0)]
    /\ initial_amount = total_available
    /\ usage_log = [r \in Resources |-> <<>>]
    /\ lists = [l \in ListIds |-> <<>>]
    /\ assigned_resources = [c \in Consumers |-> OwnList(c)]
    /\ consumption_history = [c \in Consumers |-> <<>>]
    /\ ret = [op |-> "init"]
    /\ held = Nothing
    /\ threads = [c \in Consumers |-> Idle]
    /\ pc = 0

NextLarge ==
    \/ \E r \in Resources, amount \in LargeAmounts :
          /\ Len(usage_log[r]) < MaxEvents
          /\ \E now \in ClockReads(r, amount) : CallUpdateAvailability(r, amount, now)
    \/ \E r \in Resources : CallReportUsage(r)

SpecLarge == InitLarge /\ [][NextLarge]_vars

\* ---------------------------------------------------- helpers of the claims
\* The resources held in a consumer's list, by identity.
Held(c) == {lists[assigned_resources[c]][i] : i \in 1 .. Len(lists[assigned_resources[c]])}

\* The last call was op and this step is that call returning.
Returned(op) == ret'.op = op

IsFailure(result) == result.kind \in {"InvalidAmount", "InsufficientQuantity", "NotAssigned"}

\* C1: every reachable state has 0 <= totalAvailable <= initialAmount for
\* every resource, whatever amounts were requested directly or by consumers.
C1_AvailabilityWithinBounds ==
    \A r \in Resources :
        /\ 0 <= total_available[r]
        /\ total_available[r] <= initial_amount[r]
        /\ initial_amount[r] - total_available[r] >= 0

\* A pool emptied by two consumptions, after a request that was refused.
C1_Witness ==
    \E r \in Resources :
        /\ initial_amount[r] > 0
        /\ total_available[r] = 0
        /\ Len(usage_log[r]) = 2
        /\ ret.op = "use_resource" /\ ret.resource = r
        /\ ret.result.kind = "InsufficientQuantity"

\* C2: a use_resource call that returns a failure leaves every resource's
\* total_available and usage log and every consumption history as they were.
C2_NoOpOnFailure ==
    [][(Returned("use_resource") /\ IsFailure(ret'.result))
          => /\ total_available' = total_available
             /\ usage_log' = usage_log
             /\ consumption_history' = consumption_history]_vars

\* A refused request by a consumer that has a history, on a resource that
\* has a log.
C2_Witness ==
    /\ ret.op = "use_resource"
    /\ IsFailure(ret.result)
    /\ consumption_history[ret.consumer] # <<>>
    /\ usage_log[ret.resource] # <<>>

\* C3: update_availability(amount) fails as InvalidAmount iff amount <= 0,
\* fails as InsufficientQuantity iff 0 < amount and amount > totalAvailable,
\* succeeds iff 0 < amount <= totalAvailable; consuming the whole remaining
\* quantity succeeds and leaves 0.
C3_Classification ==
    [][Returned("update_availability") =>
          LET a == ret'.amount
              t == total_available[ret'.resource]
              k == ret'.result.kind
          IN  /\ k \in {"InvalidAmount", "InsufficientQuantity", "Consumed"}
              /\ (k = "InvalidAmount") <=> (a <= 0)
              /\ (k = "InsufficientQuantity") <=> (a > 0 /\ a > t)
              /\ (k = "Consumed") <=> (0 < a /\ a <= t)
              /\ (k = "Consumed") <=> (total_available'[ret'.resource] # t)
              /\ (a > 0 /\ a = t) => total_available'[ret'.resource] = 0]_vars

\* A direct call that consumed exactly what was left.
C3_Witness ==
    /\ ret.op = "update_availability"
    /\ ret.result.kind = "Consumed"
    /\ ret.result.remaining = 0
    /\ total_available[ret.resource] = 0
    /\ ret.amount = initial_amount[ret.resource]
\* The step is a successful consumption, direct or through a consumer.
Consumed ==
    /\ (Returned("update_availability") \/ Returned("use_resource"))
    /\ ret'.result.kind = "Consumed"

\* The step appended exactly one entry to the log of r, carrying amount a
\* and the new total_available rounded to 2 decimals.
LoggedOnce(r, a) ==
    /\ Len(usage_log'[r]) = Len(usage_log[r]) + 1
    /\ SubSeq(usage_log'[r], 1, Len(usage_log[r])) = usage_log[r]
    /\ usage_log'[r][Len(usage_log'[r])].amount = a
    /\ usage_log'[r][Len(usage_log'[r])].remaining = Round2(total_available'[r])

C5_NotAssigned ==
    [][(Returned("use_resource") /\ ret'.resource \notin Held(ret'.consumer))
          => /\ ret'.result.kind = "NotAssigned"
             /\ total_available' = total_available
             /\ usage_log' = usage_log]_vars

\* A consumer refused on a resource that another consumer holds and has
\* consumed from, for an amount the resource could have served.
C5_Witness ==
    /\ ret.op = "use_resource"
    /\ ret.result.kind = "NotAssigned"
    /\ ret.amount > 0 /\ ret.amount <= total_available[ret.resource]
    /\ usage_log[ret.resource] # <<>>
    /\ \E c \in Consumers : c # ret.consumer /\ ret.resource \in Held(c)

\* C6: a consumer's history gains exactly one entry in each of its own
\* successful use_resource calls - its name, the resource's name, the amount
\* and the resource's total_available right after - and is unchanged in every
\* other step.
C6_HistoryAppendOnly ==
    [][\A c \in Consumers :
          IF Returned("use_resource") /\ ret'.consumer = c /\ ret'.result.kind = "Consumed"
          THEN consumption_history'[c] =
                  Append(consumption_history[c],
                         [consumer |-> ConsumerName(c),
                          resource |-> name[ret'.resource],
                          amount |-> ret'.amount,
                          remaining |-> total_available'[ret'.resource]])
          ELSE consumption_history'[c] = consumption_history[c]]_vars

\* Two consumptions by one consumer and one by the other.
C6_Witness ==
    /\ ret.op = "use_resource" /\ ret.result.kind = "Consumed"
    /\ \E c, d \in Consumers :
          /\ Len(consumption_history[c]) = 2
          /\ Len(consumption_history[d]) = 1
          /\ consumption_history[c][1].remaining = 125

\* C7: on an assigned resource use_resource returns what update_availability
\* returns from the same state and has the same effect on the resource.
C7_Forwarding ==
    [][(Returned("use_resource") /\ ret'.resource \in Held(ret'.consumer))
          => \E now \in Timestamps :
                LET r == ret'.resource
                    out == update_availability(r, ret'.amount, now)
                IN  /\ ret'.result = out.result
                    /\ total_available' = [total_available EXCEPT ![r] = out.total]
                    /\ usage_log' = [usage_log EXCEPT ![r] = out.log]
                    /\ UNCHANGED <<kind, name, initial_amount, renewable, extra>>]_vars

\* A refusal by the resource passed on by the consumer.
C7_Witness ==
    /\ ret.op = "use_resource"
    /\ ret.resource \in Held(ret.consumer)
    /\ ret.result.kind = "InsufficientQuantity"
    /\ total_available[ret.resource] > 0
\* The number of entries of list s that are x.
Count(s, x) == Cardinality({i \in 1 .. Len(s) : s[i] = x})

\* s is an initial part of t.
IsPrefix(s, t) == Len(s) <= Len(t) /\ SubSeq(t, 1, Len(s)) = s

\* C8: assign_resource on a resource already in the consumer's list returns
\* 'already assigned' and changes nothing; on a resource not in it, it
\* appends the resource and returns 'assigned'; after any assign_resource
\* call the list holds exactly one entry for that resource.
C8_IdempotentAssignment ==
    [][\A c \in Consumers, r \in Resources :
          (Returned("assign_resource") /\ ret'.consumer = c /\ ret'.resource = r) =>
             /\ (r \in Held(c)) =>
                    /\ ret'.result.kind = "DuplicateAssignment"
                    /\ lists' = lists
             /\ (r \notin Held(c)) =>
                    /\ ret'.result.kind = "Assigned"
                    /\ lists'[assigned_resources[c]] =
                          Append(lists[assigned_resources[c]], r)
             /\ assigned_resources' = assigned_resources
             /\ Count(lists'[assigned_resources[c]], r) = 1]_vars

\* C9: in every reachable state no resource appears more than once in a
\* consumer's assigned resources, however the consumer was constructed.
C9_NoDuplicates ==
    \A c \in Consumers, r \in Resources : Count(lists[assigned_resources[c]], r) <= 1

\* C10: the resources of a usage report are one report per assigned
\* resource, in the order of first assignment: a first assignment appends at
\* the end, and no other step - consumption, duplicate assignment, report -
\* changes the order.
C10_ReportOrdering ==
    [][\A c \in Consumers :
          LET L == lists[assigned_resources[c]]
          IN  /\ (Returned("generate_usage_report") /\ ret'.consumer = c) =>
                    /\ Len(ret'.result.resources) = Cardinality(Held(c))
                    /\ Len(ret'.result.resources) = Len(L)
                    /\ \A i \in 1 .. Len(L) :
                          ret'.result.resources[i] = report_usage(L[i])
              /\ IsPrefix(L, lists'[assigned_resources'[c]])
              /\ (lists'[assigned_resources'[c]] # L) =>
                    /\ Returned("assign_resource") /\ ret'.result.kind = "Assigned"
                    /\ lists'[assigned_resources'[c]] = Append(L, ret'.resource)]_vars
\* C11: the consumptionHistory of a returned usage report is a copy: a later
\* successful use_resource does not change the report the caller keeps, and
\* changing the kept report does not change the consumer's history.
C11_ReportHistoryIsCopy ==
    [][held.what = "usage_report" =>
          /\ (ret'.op = "use_resource" /\ held' = held) => HeldHistory' = HeldHistory
          /\ (ret'.op = "clear_held_history") =>
                consumption_history' = consumption_history]_vars

\* This step is a successful use_resource call of consumer c.
SucceededFor(c) ==
    /\ Returned("use_resource")
    /\ ret'.consumer = c
    /\ ret'.result.kind = "Consumed"

EntriesFor(report, c, r) ==
    {report.resources[i] : i \in {j \in 1 .. Len(report.resources) :
                                    lists[assigned_resources[c]][j] = r}}

\* C13: a resource held by two consumers is one object. A successful
\* consumption of a by c lowers by a the quantity d works with, and d's usage
\* report then shows the lowered quantity and the raised consumed; a
\* use_resource of d that follows c's consumption is judged against the
\* lowered quantity, InsufficientQuantity if it asks for more than is left.
C13_SharedByReference ==
    [][\A c, d \in Consumers, r \in Resources :
         (c # d /\ r \in Held(c) /\ r \in Held(d)) =>
            /\ (SucceededFor(c) /\ ret'.resource = r) =>
                 /\ total_available'[r] = total_available[r] - ret'.amount
                 /\ \A e \in EntriesFor(generate_usage_report(d), d, r)' :
                      /\ e.total_available = Round2(total_available[r] - ret'.amount)
                      /\ e.consumed =
                           Round2(initial_amount[r] - total_available[r] + ret'.amount)
                 /\ EntriesFor(generate_usage_report(d), d, r)' # {}
            /\ ( /\ ret.op = "use_resource" /\ ret.consumer = c /\ ret.resource = r
                 /\ ret.result.kind = "Consumed"
                 /\ Returned("use_resource") /\ ret'.consumer = d /\ ret'.resource = r
                 /\ ret'.amount > 0 ) =>
                 IF ret'.amount > total_available[r]
                 THEN /\ ret'.result.kind = "InsufficientQuantity"
                      /\ ret'.result.available = ret.result.remaining
                      /\ total_available'[r] = total_available[r]
                 ELSE /\ ret'.result.kind = "Consumed"
                      /\ total_available'[r] = total_available[r] - ret'.amount]_vars

\* c2 is refused an amount the resource held before c1, sharing it, consumed.
C13_Witness ==
    \E r \in Resources :
        /\ r \in Held("c1") /\ r \in Held("c2")
        /\ ret.op = "use_resource" /\ ret.consumer = "c2" /\ ret.resource = r
        /\ ret.result.kind = "InsufficientQuantity"
        /\ ret.amount <= initial_amount[r]
        /\ Len(consumption_history["c1"]) = 1
        /\ Len(consumption_history["c2"]) = 0
        /\ Len(usage_log[r]) = 1
        /\ \A q \in Resources \ {r} : usage_log[q] = <<>>

C15_OnlyConsumptionLowers ==
    [][/\ \A r \in Resources :
            /\ total_available'[r] <= total_available[r]
            /\ total_available'[r] # total_available[r] =>
                 (Consumed /\ ret'.resource = r)
            /\ ~(Consumed /\ ret'.resource = r) =>
                 total_available'[r] = total_available[r]
       /\ UNCHANGED <<kind, name, initial_amount, renewable, extra>>]_vars

\* A renewable resource has been consumed from and another one is untouched.
C15_Witness ==
    \E r, q \in Resources :
        /\ renewable[r]
        /\ total_available[r] < initial_amount[r]
        /\ q # r
        /\ total_available[q] = initial_amount[q]
        /\ initial_amount[q] > 0
        /\ ret.op = "assign_resource"

\* C16: with the stock check and the decrement of update_availability as
\* separate steps of concurrent calls, the check passes on the quantity of
\* that moment alone and the decrement subtracts without looking again, so
\* two calls can both pass before either subtracts and leave
\* totalAvailable below zero.
C16_CheckThenAct ==
    [][\A c \in Consumers :
         /\ (threads[c].pc = "check" /\ threads'[c] # threads[c]) =>
               (threads'[c].pc = "decrement"
                   <=> threads[c].amount <= total_available[threads[c].resource])
         /\ (threads[c].pc = "decrement" /\ threads'[c] # threads[c]) =>
               /\ threads'[c].pc = "store"
               /\ threads'[c].loaded = total_available[threads[c].resource]
         /\ (threads[c].pc = "store" /\ threads'[c] # threads[c]) =>
               /\ threads'[c].pc = "log"
               /\ total_available'[threads[c].resource] =
                    threads[c].loaded - threads[c].amount]_vars

\* Both calls passed the check on a pool that could serve each but not both,
\* and one has subtracted below zero.
C16_Witness ==
    \E r \in Resources :
        /\ total_available[r] < 0
        /\ usage_log[r] = <<>>
        /\ \A c \in Consumers :
              /\ threads[c].pc \in {"decrement", "store", "log"}
              /\ threads[c].resource = r
              /\ threads[c].amount <= initial_amount[r]

RECURSIVE SumAmounts(_)
\* The sum of the amounts of the entries of a log.
SumAmounts(log) == IF log = <<>> THEN 0 ELSE log[1].amount + SumAmounts(Tail(log))

\* The calls on r that have passed the check and not yet written their entry.
InFlight(r) == {c \in Consumers : threads[c].pc = "log" /\ threads[c].resource = r}

RECURSIVE SumRequests(_)
\* The sum of the amounts requested by the calls of a set of threads.
SumRequests(S) ==
    IF S = {} THEN 0
    ELSE LET c == CHOOSE x \in S : TRUE
         IN  threads[c].amount + SumRequests(S \ {c})

\* The amounts of the successful calls on r: those logged and those under way.
SuccessfulAmounts(r) == SumAmounts(usage_log[r]) + SumRequests(InFlight(r))

\* C17: when the check and the decrement of update_availability are one
\* atomic step per resource, every state reached by concurrent use_resource
\* calls of the consumers sharing the resource has
\* 0 <= totalAvailable <= initialAmount, and the amounts of the successful
\* calls sum to no more than initialAmount.
C17_AtomicKeepsBounds ==
    \A r \in Resources :
        /\ 0 <= total_available[r]
        /\ total_available[r] <= initial_amount[r]
        /\ SuccessfulAmounts(r) <= initial_amount[r]

\* One call has taken the whole of a resource and is still under way while
\* the other consumer's call for it has been refused.
C17_Witness ==
    \E r \in Resources, c \in Consumers :
        /\ initial_amount[r] > 0
        /\ total_available[r] = 0
        /\ SuccessfulAmounts(r) = initial_amount[r]
        /\ c \in InFlight(r)
        /\ ret.op = "use_resource" /\ ret.consumer # c /\ ret.resource = r
        /\ ret.result.kind = "InsufficientQuantity"

\* C18 as stated: in every reachable state report_usage returns
\* consumed = initialAmount - totalAvailable, and utilisationPct =
\* consumed / initialAmount * 100 when initialAmount > 0 and 0 when it is 0.
C18_ReportExact ==
    \A r \in Resources :
        LET consumed == initial_amount[r] - total_available[r]
        IN  /\ report_usage(r).consumed = consumed
            /\ initial_amount[r] > 0 =>
                 report_usage(r).utilisation_pct * initial_amount[r] = consumed * 100000
            /\ initial_amount[r] = 0 => report_usage(r).utilisation_pct = 0

\* C18 amended: in every reachable state report_usage returns
\* initialAmount - totalAvailable rounded to 2 decimals as consumed, and
\* consumed / initialAmount * 100 rounded to 2 decimals as utilisationPct
\* when initialAmount > 0, 0 when it is 0; a Water resource of initial 10,000
\* after one consumption of 1,500 reports remaining 8,500, consumed 1,500
\* and utilisationPct 15.
C18_ReportRounded ==
    /\ \A r \in Resources :
          LET consumed == initial_amount[r] - total_available[r]
              reported == report_usage(r)
          IN  /\ reported.consumed % 10 = 0
              /\ 2 * (reported.consumed - consumed) \in -10 .. 10
              /\ initial_amount[r] > 0 =>
                   /\ reported.utilisation_pct % 10 = 0
                   /\ 2 * (reported.utilisation_pct * initial_amount[r] - consumed * 100000)
                         \in (-10 * initial_amount[r]) .. (10 * initial_amount[r])
              /\ initial_amount[r] = 0 => reported.utilisation_pct = 0
    /\ usage_figures(10000 * 1000, (10000 - 1500) * 1000) =
          [total_available |-> 8500 * 1000, consumed |-> 1500 * 1000,
           utilisation_pct |-> 15 * 1000]

\* A report of a resource whose consumed value is a rounded one, in a run
\* that has a resource of initial amount 0.
C18_Witness ==
    /\ ret.op = "report_usage"
    /\ ret.result.consumed # initial_amount[ret.resource] - total_available[ret.resource]
    /\ ret.result.consumed = report_usage(ret.resource).consumed
    /\ \E q \in Resources : initial_amount[q] = 0

\* C19: report_usage and generate_usage_report are pure reads: a step that is
\* one of these calls leaves every attribute of every resource, every usage
\* log, every list of assigned resources and every consumption history as it
\* was, and a call that follows the same call directly returns an equal
\* record.
C19_PureReads ==
    [][(Returned("report_usage") \/ Returned("generate_usage_report")) =>
          /\ UNCHANGED <<kind, name, total_available, initial_amount, renewable,
                         extra, usage_log, assigned_resources, lists,
                         consumption_history>>
          /\ (ret.op = "report_usage" /\ Returned("report_usage")
                 /\ ret'.resource = ret.resource) => ret'.result = ret.result
          /\ (ret.op = "generate_usage_report" /\ Returned("generate_usage_report")
                 /\ ret'.consumer = ret.consumer) => ret'.result = ret.result]_vars

\* A usage report of a consumer that has consumed, listing a resource that
\* has been drawn from.
C19_Witness ==
    /\ ret.op = "generate_usage_report"
    /\ ret.result.total_consumption_events >= 1
    /\ ret.result.consumption_history = consumption_history[ret.consumer]
    /\ \E i \in 1 .. Len(ret.result.resources) : ret.result.resources[i].consumed > 0

\* The step lowered the quantity of r and added one entry to its usage log.
Mutated(r) ==
    /\ total_available'[r] < total_available[r]
    /\ Len(usage_log'[r]) = Len(usage_log[r]) + 1

\* The step left every resource, list of resources and history as it was.
NothingChanged ==
    UNCHANGED <<kind, name, total_available, initial_amount, renewable, extra,
                usage_log, assigned_resources, lists, consumption_history>>

\* C20: every call returns a result, and the result says success exactly when
\* the call changed state. update_availability returns a message with the
\* success glyph exactly when it lowered the quantity and the log grew,
\* otherwise InvalidAmount or InsufficientQuantity with nothing changed;
\* use_resource likewise, with the consumer's history one entry longer on
\* success and NotAssigned as a third failure; assign_resource returns
\* 'assigned' exactly when the consumer's list grew by one, otherwise
\* DuplicateAssignment with nothing changed.
C20_SuccessIffChanged ==
    [][/\ \A r \in Resources : (Returned("update_availability") /\ ret'.resource = r) =>
             /\ ret'.result.glyph \in {"ok", "warn"}
             /\ ret'.result.glyph = "ok" <=> Mutated(r)
             /\ ret'.result.glyph = "ok" <=> ret'.result.kind = "Consumed"
             /\ ret'.result.glyph = "warn" =>
                  /\ ret'.result.kind \in {"InvalidAmount", "InsufficientQuantity"}
                  /\ NothingChanged
       /\ \A c \in Consumers, r \in Resources :
             (Returned("use_resource") /\ ret'.consumer = c /\ ret'.resource = r) =>
                /\ ret'.result.glyph \in {"ok", "warn"}
                /\ ret'.result.glyph = "ok" <=> Mutated(r)
                /\ ret'.result.glyph = "ok" <=>
                     Len(consumption_history'[c]) = Len(consumption_history[c]) + 1
                /\ ret'.result.glyph = "ok" <=> ret'.result.kind = "Consumed"
                /\ ret'.result.glyph = "warn" =>
                     /\ ret'.result.kind \in
                          {"InvalidAmount", "InsufficientQuantity", "NotAssigned"}
                     /\ NothingChanged
       /\ \A c \in Consumers :
             (Returned("assign_resource") /\ ret'.consumer = c) =>
                /\ ret'.result.glyph \in {"ok", "warn"}
                /\ ret'.result.glyph = "ok" <=>
                     Len(lists'[assigned_resources'[c]]) =
                        Len(lists[assigned_resources[c]]) + 1
                /\ ret'.result.glyph = "ok" <=> ret'.result.kind = "Assigned"
                /\ ret'.result.glyph = "warn" =>
                     /\ ret'.result.kind = "DuplicateAssignment"
                     /\ NothingChanged]_vars

\* A refused assignment in a run in which consumption has succeeded and has
\* been refused.
C20_Witness ==
    /\ ret.op = "assign_resource"
    /\ ret.result.kind = "DuplicateAssignment"
    /\ \E c \in Consumers : consumption_history[c] # <<>>
    /\ \E r \in Resources : total_available[r] = 0 /\ initial_amount[r] > 0

\* C21: the class of a resource and its renewable flag do not affect
\* consumption: two resources of any classes built with the same quantity
\* and handed the same amounts have, after every call, outcomes of the same
\* kind, the same totalAvailable, the same consumed and utilisationPct in
\* their reports, and usage logs with the same amounts and remaining values.
C21_KindsAgree ==
    \A r, q \in Resources :
        /\ total_available[r] = total_available[q]
        /\ report_usage(r).total_available = report_usage(q).total_available
        /\ report_usage(r).consumed = report_usage(q).consumed
        /\ report_usage(r).utilisation_pct = report_usage(q).utilisation_pct
        /\ Len(usage_log[r]) = Len(usage_log[q])
        /\ \A i \in 1 .. Len(usage_log[r]) :
              /\ usage_log[r][i].amount = usage_log[q][i].amount
              /\ usage_log[r][i].remaining = usage_log[q][i].remaining
        /\ ret.op = "update_availability_on_each" =>
              /\ ret.results[r].kind = ret.results[q].kind
              /\ ret.results[r].glyph = ret.results[q].glyph

\* A renewable water supply and a waste facility have both served a request
\* and have both refused the next one.
C21_Witness ==
    /\ kind["r1"] = "WaterResource" /\ kind["r2"] = "WasteResource"
    /\ renewable["r1"] /\ ~renewable["r2"]
    /\ Len(usage_log["r1"]) = 1 /\ Len(usage_log["r2"]) = 1
    /\ total_available["r1"] > 0
    /\ ret.op = "update_availability_on_each"
    /\ ret.results["r1"].kind = "InsufficientQuantity"
    /\ ret.results["r2"].kind = "InsufficientQuantity"

\* The fields of the base report.
BaseFields == {"name", "total_available", "consumed", "renewable", "utilisation_pct"}

\* C22: the report of every class extends the base record: in every
\* reachable state it has name, totalAvailable, consumed, renewable and
\* utilisationPct with the values of the base computation, and besides them
\* exactly the fields of its class: unit 'litres' and source for water,
\* unit 'kWh' and energyType for electricity, unit 'kg', wasteCategory and
\* labelConsumed 'waste_deposited' for waste.
C22_ReportExtendsBase ==
    \A r \in Resources :
        LET report == report_usage(r)
            figures == usage_figures(initial_amount[r], total_available[r])
            own == DOMAIN report \ BaseFields
        IN  /\ BaseFields \subseteq DOMAIN report
            /\ report.name = name[r]
            /\ report.renewable = renewable[r]
            /\ report.total_available = figures.total_available
            /\ report.consumed = figures.consumed
            /\ report.utilisation_pct = figures.utilisation_pct
            /\ kind[r] = "WaterResource" =>
                 /\ own = {"unit", "source"}
                 /\ report.unit = "litres" /\ report.source = extra[r]
            /\ kind[r] = "EnergyResource" =>
                 /\ own = {"unit", "energy_type"}
                 /\ report.unit = "kWh" /\ report.energy_type = extra[r]
            /\ kind[r] = "WasteResource" =>
                 /\ own = {"unit", "waste_category", "label_consumed"}
                 /\ report.unit = "kg" /\ report.waste_category = extra[r]
                 /\ report.label_consumed = "waste_deposited"

\* The report just returned by an electricity supply that has been drawn
\* from, next to a waste facility.
C22_Witness ==
    /\ ret.op = "report_usage"
    /\ kind[ret.resource] = "EnergyResource"
    /\ ret.result = report_usage(ret.resource)
    /\ ret.result.consumed > 0
    /\ \E q \in Resources : kind[q] = "WasteResource"

\* The demonstration has made its first n calls.
After(n) == pc >= n

\* C23: in the console demonstration, from water 10,000, electricity 5,000 and
\* waste 2,000 assigned to both consumers, the six consumptions succeed, the
\* factory's 9,999 of water is refused as InsufficientQuantity, the
\* household's -50 of electricity as InvalidAmount and the household's 100
\* of the unassigned extra water as NotAssigned; from then on water is 4,500,
\* electricity 2,000, waste 700, the extra water 500 with an empty log, every
\* shared resource has 2 log entries and every consumer 3 history entries.
C23_DemoTrace ==
    /\ pc \in 7 .. 12 => ret.op = "use_resource" /\ ret.result.kind = "Consumed"
    /\ pc = 13 => /\ ret.consumer = factory /\ ret.resource = "water"
                  /\ ret.amount = Units(9999)
                  /\ ret.result.kind = "InsufficientQuantity"
    /\ pc = 14 => /\ ret.consumer = household /\ ret.resource = "energy"
                  /\ ret.amount = Units(-50)
                  /\ ret.result.kind = "InvalidAmount"
    /\ pc = 15 => /\ ret.consumer = household /\ ret.resource = "extra_water"
                  /\ ret.amount = Units(100)
                  /\ ret.result.kind = "NotAssigned"
    /\ After(12) =>
          /\ total_available["water"] = Units(4500)
          /\ total_available["energy"] = Units(2000)
          /\ total_available["waste"] = Units(700)
          /\ total_available["extra_water"] = Units(500)
          /\ usage_log["extra_water"] = <<>>
          /\ \A r \in {"water", "energy", "waste"} : Len(usage_log[r]) = 2
          /\ \A c \in Consumers : Len(consumption_history[c]) = 3

\* The demonstration has run to its end.
C23_Witness ==
    /\ pc = Len(Script)
    /\ total_available["water"] = Units(4500)
    /\ Len(consumption_history[factory]) = 3
    /\ ret.op = "report_usage" /\ ret.resource = "waste"
    /\ ret.result.total_available = Units(700)

\* C24: the registry of the dashboard is created once. A run of _init_state
\* on a session without it creates water 10,000, electricity 5,000 and waste
\* 2,000 and two consumers holding all three; a run on a session that has it
\* changes no resource, log, list of resources or history; and since every
\* consumer that can be selected holds every resource that can be selected,
\* the consume action never answers NotAssigned.
C24_RegistryCreatedOnce ==
    [][/\ (ret'.op = "_init_state" /\ held.keys = {}) =>
             /\ total_available' =
                   [r \in DashboardResources |-> DemoConstruction[r].quantity]
             /\ total_available'["water"] = Units(10000)
             /\ total_available'["energy"] = Units(5000)
             /\ total_available'["waste"] = Units(2000)
             /\ initial_amount' = total_available'
             /\ \A r \in DashboardResources : usage_log'[r] = <<>>
             /\ DOMAIN assigned_resources' = Consumers
             /\ \A c \in Consumers :
                   /\ lists'[assigned_resources'[c]] = <<"water", "energy", "waste">>
                   /\ consumption_history'[c] = <<>>
       /\ (ret'.op = "_init_state" /\ held.keys # {}) =>
             /\ held'.keys = held.keys
             /\ UNCHANGED <<kind, name, total_available, initial_amount, renewable,
                            extra, usage_log, assigned_resources, lists,
                            consumption_history>>
       /\ ret'.op = "use_resource" => ret'.result.kind # "NotAssigned"]_vars

\* _init_state has just run again on a session in which both consumers have
\* consumed.
C24_Witness ==
    /\ ret.op = "_init_state"
    /\ pc = 1
    /\ held.keys = {"resources", "consumers"}
    /\ total_available["water"] = Units(0)
    /\ Len(usage_log["energy"]) = 1
    /\ \A c \in Consumers : consumption_history[c] # <<>>

\* The sum of the amounts of the first i entries of a log.
SumFirst(log, i) == SumAmounts(SubSeq(log, 1, i))

\* C25 as stated: in every reachable state the amounts of a resource's usage
\* log sum to initialAmount - totalAvailable, every logged amount is > 0, the
\* remaining values along the log are strictly decreasing, and the remaining
\* value of the last entry equals the current totalAvailable.
C25_LogBalanceExact ==
    \A r \in Resources :
        LET log == usage_log[r]
        IN  /\ SumAmounts(log) = initial_amount[r] - total_available[r]
            /\ \A i \in 1 .. Len(log) : log[i].amount > 0
            /\ \A i \in 1 .. Len(log) - 1 : log[i].remaining > log[i + 1].remaining
            /\ log # <<>> => log[Len(log)].remaining = total_available[r]

\* C25 amended: in every reachable state the amounts of a resource's usage
\* log sum to initialAmount - totalAvailable, every logged amount is > 0, the
\* remaining value of each entry is the quantity left after it rounded to 2
\* decimals, so the remaining values never increase along the log, and the
\* remaining value of the last entry is the current totalAvailable rounded
\* to 2 decimals.
C25_LogBalanceRounded ==
    \A r \in Resources :
        LET log == usage_log[r]
            left(i) == initial_amount[r] - SumFirst(log, i)
        IN  /\ SumAmounts(log) = initial_amount[r] - total_available[r]
            /\ \A i \in 1 .. Len(log) :
                  /\ log[i].amount > 0
                  /\ log[i].remaining % 10 = 0
                  /\ 2 * (log[i].remaining - left(i)) \in -10 .. 10
            /\ \A i \in 1 .. Len(log) - 1 : log[i].remaining >= log[i + 1].remaining
            /\ log # <<>> =>
                  2 * (log[Len(log)].remaining - total_available[r]) \in -10 .. 10

\* A log of two entries whose first remaining value is a rounded one.
C25_Witness ==
    \E r \in Resources :
        /\ Len(usage_log[r]) = 2
        /\ usage_log[r][1].remaining # initial_amount[r] - usage_log[r][1].amount
        /\ usage_log[r][2].remaining = total_available[r]

\* The entries of c's history for the resource r, told by its name.
HistoryOf(c, r) ==
    LET ForR(e) == e.resource = name[r]
    IN  SelectSeq(consumption_history[c], ForR)

\* A log entry and a history entry of one event: the same amount, and the
\* same remaining value, exactly or up to the rounding of the log.
SameEvent(logged, recorded, exact) ==
    /\ logged.amount = recorded.amount
    /\ IF exact
       THEN logged.remaining = recorded.remaining
       ELSE /\ logged.remaining % 10 = 0
            /\ 2 * (logged.remaining - recorded.remaining) \in -10 .. 10

RECURSIVE Merges(_, _, _, _)
\* The log is the two histories merged, event by event.
Merges(log, a, b, exact) ==
    IF log = <<>>
    THEN a = <<>> /\ b = <<>>
    ELSE \/ /\ a # <<>>
            /\ SameEvent(log[1], a[1], exact)
            /\ Merges(Tail(log), Tail(a), b, exact)
         \/ /\ b # <<>>
            /\ SameEvent(log[1], b[1], exact)
            /\ Merges(Tail(log), a, Tail(b), exact)

\* The counts and sums of a resource's log and of the histories agree with
\* each other and with the balance.
CountsAgree(r) ==
    LET a == HistoryOf("c1", r)
        b == HistoryOf("c2", r)
    IN  /\ Len(usage_log[r]) = Len(a) + Len(b)
        /\ SumAmounts(usage_log[r]) = SumAmounts(a) + SumAmounts(b)
        /\ SumAmounts(usage_log[r]) = initial_amount[r] - total_available[r]

\* C26 as stated: when all consumption goes through use_resource, for every
\* resource the log has as many entries as the consumers' histories have for
\* it, the amounts sum to the same, to initialAmount - totalAvailable, and the
\* i-th event has the same amount and the same remaining value in the log
\* and in the history of the consumer.
C26_CrossLogExact ==
    \A r \in Resources :
        /\ CountsAgree(r)
        /\ Merges(usage_log[r], HistoryOf("c1", r), HistoryOf("c2", r), TRUE)

\* C26 amended: as stated, except that the remaining value of an event in the
\* log is the remaining value in the consumer's history rounded to 2
\* decimals.
C26_CrossLogRounded ==
    \A r \in Resources :
        /\ CountsAgree(r)
        /\ Merges(usage_log[r], HistoryOf("c1", r), HistoryOf("c2", r), FALSE)

\* Both consumers have drawn from one resource, and the log holds a
\* remaining value that differs from the one in the history.
C26_Witness ==
    \E r \in Resources :
        /\ Len(usage_log[r]) = 2
        /\ Len(HistoryOf("c1", r)) = 1
        /\ Len(HistoryOf("c2", r)) = 1
        /\ \E c \in Consumers : HistoryOf(c, r)[1].remaining # usage_log[r][1].remaining

\* C27: assign_resource on one consumer changes at most that consumer's
\* list: it leaves every resource's totalAvailable and usage log, every
\* history and the list of every other consumer as they were, also for
\* consumers built from the same list of resources, and never makes the
\* resource assigned for another consumer.
C27_AssignmentFrame ==
    [][\A c \in Consumers : (Returned("assign_resource") /\ ret'.consumer = c) =>
          /\ UNCHANGED <<total_available, usage_log, consumption_history>>
          /\ \A d \in Consumers \ {c} :
                /\ lists'[assigned_resources'[d]] = lists[assigned_resources[d]]
                /\ Held(d)' = Held(d)]_vars

\* The last call was update_availability or use_resource on r, requesting a.
CalledOn(r, a) ==
    /\ Returned("update_availability") \/ Returned("use_resource")
    /\ ret'.resource = r
    /\ ret'.amount = a

\* The kind of failure an exhausted resource answers with.
ExhaustedAnswer(a) == IF a <= 0 THEN "InvalidAmount" ELSE "InsufficientQuantity"

\* C28 as stated: once totalAvailable is 0, every update_availability and
\* every use_resource on the resource fails, with InvalidAmount when the
\* amount is <= 0 and InsufficientQuantity otherwise, and totalAvailable and
\* the usage log stay as they are; with whole positive amounts a resource of
\* initial quantity N has at most N successful consumptions.
C28_ExhaustionAbsorbing ==
    [][\A r \in Resources :
          /\ \A a \in WholeAmounts : (total_available[r] = 0 /\ CalledOn(r, a)) =>
                /\ ret'.result.kind = ExhaustedAnswer(a)
                /\ UNCHANGED <<total_available[r], usage_log[r]>>
          /\ Len(usage_log'[r]) * Units(1) <= initial_amount'[r]]_vars

\* C28, amended: as above, except that use_resource by a consumer that does
\* not hold the resource fails with NotAssigned, whatever the amount.
C28_ExhaustionAbsorbingForHolders ==
    [][\A r \in Resources :
          /\ \A a \in WholeAmounts : (total_available[r] = 0 /\ CalledOn(r, a)) =>
                /\ ret'.result.kind =
                      IF Returned("use_resource") /\ r \notin Held(ret'.consumer)
                      THEN "NotAssigned" ELSE ExhaustedAnswer(a)
                /\ total_available'[r] = 0
                /\ usage_log'[r] = usage_log[r]
          /\ Len(usage_log'[r]) * Units(1) <= initial_amount'[r]]_vars

\* A resource of initial quantity 3 was emptied by three successful
\* consumptions and then refused a positive amount asked by its holder.
C28_Witness ==
    \E r \in Resources :
        /\ initial_amount[r] = Units(3)
        /\ total_available[r] = 0
        /\ Len(usage_log[r]) = 3
        /\ ret.op = "use_resource"
        /\ ret.resource = r
        /\ ret.result.kind = "InsufficientQuantity"

\* 100 percent, in thousandths of a percent.
FullPct == 100 * 1000

\* This step is report_usage returning for r.
ReportedOn(r) == Returned("report_usage") /\ ret'.resource = r

\* C29 as stated: the utilisationPct returned by report_usage lies in
\* [0, 100], is 100 exactly when initialAmount > 0 and totalAvailable = 0, is
\* 0 exactly when nothing has been consumed, and never decreases.
C29_UtilisationExact ==
    [][\A r \in Resources :
          /\ report_usage(r)'.utilisation_pct >= report_usage(r).utilisation_pct
          /\ ReportedOn(r) =>
                LET p == ret'.result.utilisation_pct
                IN  /\ 0 <= p /\ p <= FullPct
                    /\ p = FullPct <=> (initial_amount[r] > 0 /\ total_available[r] = 0)
                    /\ p = 0 <=> total_available[r] = initial_amount[r]]_vars

\* C29, amended: the utilisationPct returned by report_usage lies in
\* [0, 100] and never decreases; it is 100 when initialAmount > 0 and
\* totalAvailable = 0 and 0 when nothing has been consumed, and conversely a
\* returned 100 means that at most 0.005 percent of a positive initialAmount
\* remains, and a returned 0 that at most 0.005 percent has been consumed.
C29_UtilisationRounded ==
    [][\A r \in Resources :
          /\ report_usage(r)'.utilisation_pct >= report_usage(r).utilisation_pct
          /\ ReportedOn(r) =>
                LET p == ret'.result.utilisation_pct
                    share == initial_amount[r] \div 20000
                IN  /\ 0 <= p /\ p <= FullPct
                    /\ (initial_amount[r] > 0 /\ total_available[r] = 0) => p = FullPct
                    /\ total_available[r] = initial_amount[r] => p = 0
                    /\ p = FullPct =>
                          initial_amount[r] > 0 /\ total_available[r] <= share
                    /\ p = 0 => initial_amount[r] - total_available[r] <= share]_vars

\* report_usage returned 100 for a supply of which a part remains after a
\* consumption.
C29_Witness ==
    \E r \in Resources :
        /\ ret.op = "report_usage"
        /\ ret.resource = r
        /\ ret.result.utilisation_pct = FullPct
        /\ total_available[r] > 0
        /\ Len(usage_log[r]) > 0

\* The resources whose name a history entry of c carries.
NamedIn(c) ==
    {r \in Resources : \E i \in 1 .. Len(consumption_history[c]) :
                          consumption_history[c][i].resource = name[r]}

\* C30: no operation removes a resource from a consumer's assignedResources:
\* the list before a step is a prefix of the list after it; use_resource on
\* a resource the consumer holds never answers NotAssigned; a successful
\* use_resource is on a resource the consumer holds afterwards, and every
\* history entry names a resource that the consumer holds.
C30_AssignmentsOnlyGrow ==
    [][\A c \in Consumers :
          /\ IsPrefix(lists[assigned_resources[c]], lists'[assigned_resources'[c]])
          /\ \A r \in Resources :
                (Returned("use_resource") /\ ret'.consumer = c /\ ret'.resource = r) =>
                   /\ r \in Held(c) => ret'.result.kind # "NotAssigned"
                   /\ ret'.result.kind = "Consumed" => r \in Held(c)'
          /\ \A r \in NamedIn(c)' : \E h \in Held(c)' : name[h] = name[r]]_vars

\* A consumer that holds two resources and has consumed from the first one
\* it was assigned consumes from it again.
C30_Witness ==
    \E c \in Consumers :
        /\ Len(lists[assigned_resources[c]]) > 1
        /\ Len(consumption_history[c]) > 1
        /\ ret.op = "use_resource"
        /\ ret.consumer = c
        /\ ret.resource = lists[assigned_resources[c]][1]
        /\ ret.result.kind = "Consumed"
====
